---- MODULE Spec2Model ----
(***************************************************************************)
(* dotgk: gatekeeper evaluation (Lua executor with require) and the cache  *)
(* store with its reconciliation (sync).                                   *)
(*                                                                         *)
(* Strings that the code inspects (gatekeeper names, module names, file    *)
(* paths) are sequences of tokens: a path component, "/" or ".".  A file   *)
(* under <config>/gatekeepers is keyed by its path without the ".lua"      *)
(* extension, so "d/init.lua" is <<"d", "/", "init">>.  Only ".lua" files  *)
(* are kept: the code looks at no other file under that directory.         *)
(* The configuration directory is taken to be resolvable (get_config_dir   *)
(* returns Ok), as it is whenever HOME or DOTGK_CONFIG_DIR is set.         *)
(***************************************************************************)
EXTENDS Integers, Sequences, FiniteSets, TLC

VARIABLES
    fs,         \* the .lua files under <config>/gatekeepers: path -> [mtime, script]
    cacheFile,  \* the cache document on disk: [kind, cache, ts]
    writable,   \* whether a write of the cache document succeeds
    now,        \* SystemTime::now() in seconds
    ops,        \* number of commands run so far
    last,       \* the last command run: its arguments, its outcome, the cache file and
                \* the gatekeeper files it started from
    stack,      \* the evaluations in progress: one frame per LuaExecutor
    evalResult, \* the outcome of the top-level evaluation
    target_os,  \* the operating system the program was built for
    procs,      \* the commands running at the same time: what each runs, where it
                \* is, and the cache document and the time it read
    overflow_checks  \* whether the build traps on integer overflow (as the debug
                \* profile does) or wraps around (as the release profile does)

vars == <<fs, cacheFile, writable, now, ops, last, stack, evalResult, target_os, procs,
         overflow_checks>>

-----------------------------------------------------------------------------
(* Bounds of the model *)

MaxTime == 1
MaxOps == 2
MaxDepth == 4
MaxTtl == 2
\* The largest value of the unsigned integers of the model: it stands for
\* u64::MAX, and the sum of two of them is taken modulo MaxU64 + 1
MaxU64 == 7

-----------------------------------------------------------------------------
(* Option<T> *)

None == <<>>
Some(x) == <<x>>
IsSome(o) == o # <<>>
Unwrap(o) == o[1]
\* Option::or
OptOr(a, b) == IF IsSome(a) THEN a ELSE b

EmptyMap == [k \in {} |-> 0]

Last(s) == s[Len(s)]
Front(s) == SubSeq(s, 1, Len(s) - 1)

-----------------------------------------------------------------------------
(* Gatekeeper resolver: gatekeeper.rs *)

\* str::contains('/')
ContainsSlash(name) == \E i \in 1..Len(name) : name[i] = "/"

\* get_gatekeeper_path with the init.lua fallback for every name
get_gatekeeper_path_always_init(files, name) ==
    LET direct_path == name
        init_path == name \o <<"/", "init">>
    IN  IF direct_path \in DOMAIN files THEN direct_path
        ELSE IF init_path \in DOMAIN files THEN init_path
        ELSE direct_path

\* get_gatekeeper_path, as the key of the file it names
get_gatekeeper_path(files, name) ==
    IF ~ContainsSlash(name)
    THEN LET direct_path == name
             init_path == name \o <<"/", "init">>
         IN  IF direct_path \in DOMAIN files THEN direct_path
             ELSE IF init_path \in DOMAIN files THEN init_path
             ELSE direct_path
    ELSE name

\* gatekeeper_path.exists() for the path get_gatekeeper_path returns
GatekeeperFileExists(files, name) == get_gatekeeper_path(files, name) \in DOMAIN files

\* find_gatekeepers_recursive: how many times the walk pushes `name`.
\* A file <name>.lua other than init.lua pushes its name; a directory with an
\* init.lua pushes the directory's name (the root itself is not a directory entry).
Occurrences(files, name) ==
    (IF name \in DOMAIN files /\ Last(name) # "init" THEN 1 ELSE 0)
    + (IF name \o <<"/", "init">> \in DOMAIN files THEN 1 ELSE 0)

\* The names a walk can push
WalkNames(files) ==
    {p \in DOMAIN files : Last(p) # "init"}
    \cup {SubSeq(p, 1, Len(p) - 2) : p \in {q \in DOMAIN files : Last(q) = "init" /\ Len(q) > 2}}

\* find_all_gatekeepers: the Vec as a bag, name -> number of occurrences
find_all_gatekeepers(files) == [n \in WalkNames(files) |-> Occurrences(files, n)]

-----------------------------------------------------------------------------
(* Gatekeeper scripts.                                                     *)
(* A script is the part of a Lua program the engine can observe:           *)
(*   syntax_ok  whether lua.load(script).eval() gets as far as running it   *)
(*   ttlc       the "-- ttl: N" comment, if one is there                    *)
(*   reqs       the module names it passes to require, in order             *)
(*   shape      the kind of its final value: "bool", "table", or "nil",     *)
(*              "number", "string", "function", "other"                     *)
(*   value      the boolean it yields: "true", "false", "reqs" for the      *)
(*              conjunction of the values its require calls returned, or    *)
(*              "last" for the value of its last require, the earlier ones  *)
(*              being made through pcall; for a table, its value field,     *)
(*              which can also be "nil" (no such field) or "string"         *)
(*   ttl        the ttl field of a returned table, if one is there          *)

Script(syntax_ok, ttlc, reqs, shape, value, ttl) ==
    [syntax_ok |-> syntax_ok, ttlc |-> ttlc, reqs |-> reqs,
     shape |-> shape, value |-> value, ttl |-> ttl]

\* return true / return false
ReturnBool(b) == Script(TRUE, None, <<>>, "bool", IF b THEN "true" ELSE "false", None)
\* -- ttl: n
\* return true / return false
ReturnBoolTtlComment(b, n) ==
    Script(TRUE, Some(n), <<>>, "bool", IF b THEN "true" ELSE "false", None)
\* return { value = b, ttl = n }
ReturnTable(b, n) == Script(TRUE, None, <<>>, "table", IF b THEN "true" ELSE "false", Some(n))
\* return "string value"
ReturnString == Script(TRUE, None, <<>>, "other", "true", None)
\* return nil / return 42 / return "yes" / return function() end
ReturnValue(shape) == Script(TRUE, None, <<>>, shape, "true", None)
\* return { ttl = n } / return { value = "yes", ttl = n }
ReturnTableWith(value, ttl) == Script(TRUE, None, <<>>, "table", value, ttl)
\* return invalid syntax here
SyntaxError == Script(FALSE, None, <<>>, "bool", "true", None)
\* return all({ require(m1), require(m2), ... })
ReturnRequires(mods) == Script(TRUE, None, mods, "bool", "reqs", None)

\* pcall(require, m1) ... pcall(require, m_k-1)
\* return require(m_k)
ReturnLastRequire(mods) == Script(TRUE, None, mods, "bool", "last", None)

File(mtime, script) == [mtime |-> mtime, script |-> script]

-----------------------------------------------------------------------------
(* Results of an evaluation: Result<GatekeeperResult>, or the death of the  *)
(* process when the native stack is exhausted.                              *)

NoResult == [kind |-> "none", value |-> FALSE, ttl |-> None, why |-> ""]
Ok(value, ttl) == [kind |-> "ok", value |-> value, ttl |-> ttl, why |-> ""]
Err(why) == [kind |-> "err", value |-> FALSE, ttl |-> None, why |-> why]
StackOverflow == [kind |-> "overflow", value |-> FALSE, ttl |-> None, why |-> "stack"]

-----------------------------------------------------------------------------
(* Lua executor: lua_executor.rs *)

\* LuaExecutor::parse_ttl_comment
parse_ttl_comment(script) == script.ttlc

\* EvaluationContext::visit: Ok(()) iff the name was not in the set
visit_ok(visited, name) == name \notin visited
\* EvaluationContext::visit, the set after a successful visit
visit(visited, name) == visited \cup {name}
\* leave that removes nothing
leave_keeping(visited, name) == visited

\* EvaluationContext::leave
leave(visited, name) == visited \ {name}

\* One LuaExecutor running one script: LuaExecutor::new() gives it a context of
\* its own (visited = {}); pc is the index of the next require of the script.
NewFrame(name, script) ==
    [name |-> name, script |-> script, pc |-> 1, vals |-> <<>>,
     visited |-> {}, failed |-> ""]

\* module_name.replace('.', "/")
replace_dots(module_name) ==
    [i \in 1..Len(module_name) |-> IF module_name[i] = "." THEN "/" ELSE module_name[i]]

\* paths_to_try with the init.lua candidate for every name
paths_to_try_always_init(gk_name) == <<gk_name, gk_name \o <<"/", "init">> >>

\* paths_to_try of the custom searcher
paths_to_try(gk_name) ==
    IF ~ContainsSlash(gk_name)
    THEN <<gk_name, gk_name \o <<"/", "init">> >>
    ELSE <<gk_name>>

\* The first path of paths_to_try whose gatekeeper file exists, if any
FirstFound(files, paths) ==
    LET found == {i \in 1..Len(paths) : GatekeeperFileExists(files, paths[i])}
    IN  IF found = {} THEN None
        ELSE Some(paths[CHOOSE i \in found : \A j \in found : i <= j])

\* extract_result with the TTL of the comment taken before the TTL of the table
extract_result_comment_first(frame) ==
    LET script == frame.script
        ttl == parse_ttl_comment(script)
        value == CASE script.value = "true" -> TRUE
                   [] script.value = "false" -> FALSE
                   \* table.get::<_, bool>: nil converts to false, and every
                   \* value that is neither nil nor a boolean converts to true
                   [] script.value = "nil" -> FALSE
                   [] script.value = "string" -> TRUE
                   [] script.value = "last" -> frame.vals[Len(frame.vals)]
                   [] OTHER -> \A i \in 1..Len(frame.vals) : frame.vals[i]
    IN  CASE script.shape = "bool" -> Ok(value, ttl)
          [] script.shape = "table" -> Ok(value, OptOr(ttl, script.ttl))
          [] OTHER -> Err("shape")

\* LuaExecutor::execute, the extraction of the result from the script's final value
extract_result(frame) ==
    LET script == frame.script
        ttl == parse_ttl_comment(script)
        value == CASE script.value = "true" -> TRUE
                   [] script.value = "false" -> FALSE
                   \* table.get::<_, bool>: nil converts to false, and every
                   \* value that is neither nil nor a boolean converts to true
                   [] script.value = "nil" -> FALSE
                   [] script.value = "string" -> TRUE
                   [] script.value = "last" -> frame.vals[Len(frame.vals)]
                   [] OTHER -> \A i \in 1..Len(frame.vals) : frame.vals[i]
    IN  CASE script.shape = "bool" -> Ok(value, ttl)
          [] script.shape = "table" -> Ok(value, OptOr(script.ttl, ttl))
          [] OTHER -> Err("shape")

-----------------------------------------------------------------------------
(* Evaluation engine: gatekeeper.rs, load_and_evaluate_gatekeeper.           *)
(* A machine is [stack, result]; the nested calls of the Rust code are the   *)
(* frames of the stack.                                                      *)

Machine(stk, res) == [stack |-> stk, result |-> res]

ReplaceTop(stk, frame) == [stk EXCEPT ![Len(stk)] = frame]

\* The loader closure handing true to the script whatever the nested evaluation yielded
Return_true(stk, name, res) ==
    IF res.kind = "overflow" THEN Machine(<<>>, res)
    ELSE IF stk = <<>> THEN Machine(<<>>, res)
    ELSE LET caller == Last(stk)
             left == [caller EXCEPT !.visited = leave(caller.visited, name)]
         IN  IF res.kind = "ok"
             THEN Machine(ReplaceTop(stk, [left EXCEPT !.vals = Append(caller.vals, TRUE),
                                                       !.pc = caller.pc + 1]),
                          NoResult)
             ELSE Machine(ReplaceTop(stk, [left EXCEPT !.failed = res.why]), NoResult)

\* The loader closure gets the result of the nested evaluation of `name`:
\* leave(name) on both arms, then the value or a Lua runtime error.
\* With no caller left the result is the result of the top-level call.
Return(stk, name, res) ==
    IF res.kind = "overflow" THEN Machine(<<>>, res)
    ELSE IF stk = <<>> THEN Machine(<<>>, res)
    ELSE LET caller == Last(stk)
             left == [caller EXCEPT !.visited = leave(caller.visited, name)]
         IN  IF res.kind = "ok"
             THEN Machine(ReplaceTop(stk, [left EXCEPT !.vals = Append(caller.vals, res.value),
                                                       !.pc = caller.pc + 1]),
                          NoResult)
             ELSE Machine(ReplaceTop(stk, [left EXCEPT !.failed = res.why]), NoResult)

\* load_and_evaluate_gatekeeper(name), called with `stk` the evaluations in progress:
\* the path is resolved, a missing file is an error, and a new LuaExecutor runs the script.
\* The nesting is native recursion: at MaxDepth frames the stack is exhausted.
load_and_evaluate_gatekeeper_with_context(files, stk, name) ==
    LET gatekeeper_path == get_gatekeeper_path(files, name)
    IN  IF gatekeeper_path \notin DOMAIN files
        THEN Return(stk, name, Err("notfound"))
        ELSE IF Len(stk) >= MaxDepth
        THEN Return(stk, name, StackOverflow)
        ELSE Machine(Append(stk, NewFrame(name, files[gatekeeper_path].script)), NoResult)

\* require(module_name) in the script of the top frame: the custom searcher, then the loader
require(files, stk, module_name) ==
    LET frame == Last(stk)
        found == FirstFound(files, paths_to_try(replace_dots(module_name)))
    IN  IF ~IsSome(found)
        THEN Machine(ReplaceTop(stk, [frame EXCEPT !.failed = "notfound"]), NoResult)
        ELSE LET path == Unwrap(found)
             IN  IF ~visit_ok(frame.visited, path)
                 THEN Machine(ReplaceTop(stk, [frame EXCEPT !.failed = "circular"]), NoResult)
                 ELSE load_and_evaluate_gatekeeper_with_context(
                          files,
                          ReplaceTop(stk, [frame EXCEPT !.visited = visit(frame.visited, path)]),
                          path)

\* One step of the executor of the top frame
execute_step(files, stk) ==
    LET frame == Last(stk)
        rest == Front(stk)
        \* the require that failed was made through pcall: the script goes on
        protected == frame.script.value = "last" /\ frame.pc < Len(frame.script.reqs)
    IN  CASE frame.failed # "" /\ protected ->
                Machine(ReplaceTop(stk, [frame EXCEPT !.failed = "",
                                                      !.vals = Append(frame.vals, FALSE),
                                                      !.pc = frame.pc + 1]),
                        NoResult)
          [] frame.failed # "" /\ ~protected -> Return(rest, frame.name, Err(frame.failed))
          [] ~frame.script.syntax_ok -> Return(rest, frame.name, Err("lua"))
          [] frame.pc <= Len(frame.script.reqs) ->
                require(files, stk, frame.script.reqs[frame.pc])
          [] OTHER -> Return(rest, frame.name, extract_result(frame))

RECURSIVE run(_, _)
run(files, m) ==
    IF m.result.kind # "none" THEN m.result
    ELSE run(files, execute_step(files, m.stack))

\* load_and_evaluate_gatekeeper(name), run to its end
load_and_evaluate_gatekeeper(files, name) ==
    run(files, load_and_evaluate_gatekeeper_with_context(files, <<>>, name))

-----------------------------------------------------------------------------
(* Cache store: cache.rs *)

\* UpdateType, serialised in lowercase
UpdateTypes == {"evaluate", "sync", "set"}

\* CacheEntry
Entry(value, ts, update_type, expires_at) ==
    [value |-> value, ts |-> ts, update_type |-> update_type, expires_at |-> expires_at]

\* The cache file: absent, not parseable as a Cache, or a Cache {cache, ts}
Absent == [kind |-> "absent", cache |-> EmptyMap, ts |-> 0]
Malformed == [kind |-> "malformed", cache |-> EmptyMap, ts |-> 0]
Cache(cache, ts) == [kind |-> "ok", cache |-> cache, ts |-> ts]

\* HashMap::insert, HashMap::remove
Insert(map, k, v) == [n \in DOMAIN map \cup {k} |-> IF n = k THEN v ELSE map[n]]
Remove(map, k) == [n \in DOMAIN map \ {k} |-> map[n]]
Restrict(map, keys) == [n \in keys |-> map[n]]

\* expiry with the timestamp left out of the sum
expiry_ttl_only(current_timestamp, ttl) == ttl

\* current_timestamp + ttl overflows u64
add_overflows(current_timestamp, ttl_seconds) ==
    IsSome(ttl_seconds) /\ current_timestamp + Unwrap(ttl_seconds) > MaxU64

\* current_timestamp + ttl, in u64: the sum that wraps around; a build that
\* traps on overflow panics instead (see cache_result_with_ttl)
expiry(current_timestamp, ttl) == (current_timestamp + ttl) % (MaxU64 + 1)

\* ttl_seconds.map(|ttl| current_timestamp + ttl)
expires_at_of(current_timestamp, ttl_seconds) ==
    IF IsSome(ttl_seconds) THEN Some(expiry(current_timestamp, Unwrap(ttl_seconds))) ELSE None

\* is_cache_entry_expired with > for >=
is_cache_entry_expired_strict(entry, current_timestamp) ==
    IF IsSome(entry.expires_at)
    THEN current_timestamp > Unwrap(entry.expires_at)
    ELSE FALSE

\* is_cache_entry_expired taking every entry with an expires_at as expired
is_cache_entry_expired_any_ttl(entry, current_timestamp) == IsSome(entry.expires_at)

\* is_cache_entry_expired
is_cache_entry_expired(entry, current_timestamp) ==
    IF IsSome(entry.expires_at)
    THEN current_timestamp >= Unwrap(entry.expires_at)
    ELSE FALSE

\* is_gatekeeper_file_modified with >= for >
is_gatekeeper_file_modified_ge(files, name, cache_entry) ==
    LET gatekeeper_path == get_gatekeeper_path(files, name)
    IN  IF gatekeeper_path \notin DOMAIN files
        THEN TRUE
        ELSE files[gatekeeper_path].mtime >= cache_entry.ts

\* is_gatekeeper_file_modified: a missing file counts as modified
is_gatekeeper_file_modified(files, name, cache_entry) ==
    LET gatekeeper_path == get_gatekeeper_path(files, name)
    IN  IF gatekeeper_path \notin DOMAIN files
        THEN TRUE
        ELSE files[gatekeeper_path].mtime > cache_entry.ts

\* The document a command starts from when the file parses or is absent
LoadOrNew(file, current_timestamp) ==
    IF file.kind = "ok" THEN file ELSE Cache(EmptyMap, current_timestamp)

\* cache_result_with_ttl leaving the ts of the document as it was
cache_result_with_ttl_keep_ts(file, can_write, current_timestamp, name, result, update_type, ttl_seconds) ==
    IF file.kind = "malformed"
    THEN [file |-> file, ok |-> FALSE]
    ELSE LET cache == LoadOrNew(file, current_timestamp)
             expires_at == expires_at_of(current_timestamp, ttl_seconds)
             entry == Entry(result, current_timestamp, update_type, expires_at)
             written == Cache(Insert(cache.cache, name, entry), cache.ts)
         IN  IF can_write
             THEN [file |-> written, ok |-> TRUE]
             ELSE [file |-> file, ok |-> FALSE]

\* cache_result_with_ttl writing a document that holds the new entry alone
cache_result_with_ttl_alone(file, can_write, current_timestamp, name, result, update_type, ttl_seconds) ==
    IF file.kind = "malformed"
    THEN [file |-> file, ok |-> FALSE]
    ELSE LET expires_at == expires_at_of(current_timestamp, ttl_seconds)
             entry == Entry(result, current_timestamp, update_type, expires_at)
             written == Cache(Insert(EmptyMap, name, entry), current_timestamp)
         IN  IF can_write
             THEN [file |-> written, ok |-> TRUE]
             ELSE [file |-> file, ok |-> FALSE]

\* cache_result_with_ttl merging into the old entry: without a TTL the old expires_at stays
cache_result_with_ttl_keep_expiry(file, can_write, current_timestamp, name, result, update_type, ttl_seconds) ==
    IF file.kind = "malformed"
    THEN [file |-> file, ok |-> FALSE]
    ELSE LET cache == LoadOrNew(file, current_timestamp)
             expires_at == IF ~IsSome(ttl_seconds) /\ name \in DOMAIN cache.cache
                           THEN cache.cache[name].expires_at
                           ELSE expires_at_of(current_timestamp, ttl_seconds)
             entry == Entry(result, current_timestamp, update_type, expires_at)
             written == Cache(Insert(cache.cache, name, entry), current_timestamp)
         IN  IF can_write
             THEN [file |-> written, ok |-> TRUE]
             ELSE [file |-> file, ok |-> FALSE]

\* cache_result_with_ttl: [file, ok], the file afterwards and whether Ok(()) is returned
cache_result_with_ttl(file, can_write, current_timestamp, name, result, update_type, ttl_seconds) ==
    IF file.kind = "malformed"
    THEN [file |-> file, ok |-> FALSE]
    ELSE IF overflow_checks /\ add_overflows(current_timestamp, ttl_seconds)
    THEN [file |-> file, ok |-> FALSE]
    ELSE LET cache == LoadOrNew(file, current_timestamp)
             expires_at == expires_at_of(current_timestamp, ttl_seconds)
             entry == Entry(result, current_timestamp, update_type, expires_at)
             written == Cache(Insert(cache.cache, name, entry), current_timestamp)
         IN  IF can_write
             THEN [file |-> written, ok |-> TRUE]
             ELSE [file |-> file, ok |-> FALSE]

\* load_cache with the test for the file inverted
load_cache_inverted(file) == IF file.kind = "absent" THEN Some(Cache(EmptyMap, 0)) ELSE None

\* load_cache: Some(cache) only for a file that exists and parses
load_cache(file) == IF file.kind = "ok" THEN Some(file) ELSE None

-----------------------------------------------------------------------------
(* Commands.  Each yields an outcome:                                        *)
(*   file     the cache file afterwards                                      *)
(*   files    the gatekeeper files afterwards                                *)
(*   status   "ok" (Ok(())), "err" (Err) or "crash" (the process died)       *)
(*   printed  the boolean printed, if one is                                 *)
(*   evals    the gatekeepers the command decided to evaluate                *)
(*   counts   the counts sync reports                                        *)

NoCounts == [updated |-> 0, skipped |-> 0, preserved |-> 0, removed |-> 0]

Outcome(file, files, status, printed, evals, counts) ==
    [file |-> file, files |-> files, status |-> status, printed |-> printed,
     evals |-> evals, counts |-> counts]

\* set_command writing the provenance of an evaluation
set_command_as_evaluate(file, files, can_write, current_timestamp, name, value, ttl_seconds) ==
    LET w == cache_result_with_ttl(file, can_write, current_timestamp, name, value,
                                   "evaluate", ttl_seconds)
    IN  Outcome(w.file, files, IF w.ok THEN "ok" ELSE "err", None, {}, NoCounts)

\* set_command
set_command(file, files, can_write, current_timestamp, name, value, ttl_seconds) ==
    LET w == cache_result_with_ttl(file, can_write, current_timestamp, name, value,
                                   "set", ttl_seconds)
        \* the panic of the addition ends the process
        panics == /\ file.kind # "malformed"
                  /\ overflow_checks
                  /\ add_overflows(current_timestamp, ttl_seconds)
    IN  Outcome(w.file, files,
                IF w.ok THEN "ok" ELSE IF panics THEN "crash" ELSE "err",
                None, {}, NoCounts)

\* evaluate_command returning the error of a failed cache write
evaluate_command_strict(file, files, can_write, current_timestamp, name, no_cache) ==
    LET gatekeeper_result == load_and_evaluate_gatekeeper(files, name)
        w == cache_result_with_ttl(file, can_write, current_timestamp, name,
                                   gatekeeper_result.value, "evaluate", gatekeeper_result.ttl)
    IN  CASE gatekeeper_result.kind = "err" ->
                Outcome(file, files, "err", None, {name}, NoCounts)
          [] gatekeeper_result.kind = "overflow" ->
                Outcome(file, files, "crash", None, {name}, NoCounts)
          [] no_cache ->
                Outcome(file, files, "ok", Some(gatekeeper_result.value), {name}, NoCounts)
          [] OTHER ->
                Outcome(w.file, files, IF w.ok THEN "ok" ELSE "err",
                        Some(gatekeeper_result.value), {name}, NoCounts)

\* evaluate_command caching a failed evaluation as false
evaluate_command_caching_failure(file, files, can_write, current_timestamp, name, no_cache) ==
    LET gatekeeper_result == load_and_evaluate_gatekeeper(files, name)
        value == gatekeeper_result.kind = "ok" /\ gatekeeper_result.value
        w == IF no_cache
             THEN [file |-> file, ok |-> TRUE]
             ELSE cache_result_with_ttl(file, can_write, current_timestamp, name, value,
                                        "evaluate", gatekeeper_result.ttl)
    IN  CASE gatekeeper_result.kind = "err" ->
                Outcome(w.file, files, "err", None, {name}, NoCounts)
          [] gatekeeper_result.kind = "overflow" ->
                Outcome(file, files, "crash", None, {name}, NoCounts)
          [] OTHER ->
                Outcome(w.file, files, "ok", Some(value), {name}, NoCounts)

\* evaluate_command caching the result whatever --no-cache says
evaluate_command_always_caching(file, files, can_write, current_timestamp, name, no_cache) ==
    LET gatekeeper_result == load_and_evaluate_gatekeeper(files, name)
    IN  CASE gatekeeper_result.kind = "err" ->
                Outcome(file, files, "err", None, {name}, NoCounts)
          [] gatekeeper_result.kind = "overflow" ->
                Outcome(file, files, "crash", None, {name}, NoCounts)
          [] OTHER ->
                LET w == cache_result_with_ttl(file, can_write, current_timestamp, name,
                                               gatekeeper_result.value, "evaluate",
                                               gatekeeper_result.ttl)
                IN  Outcome(w.file, files, "ok", Some(gatekeeper_result.value), {name}, NoCounts)

\* evaluate_command answering from an unexpired cache entry when there is one
evaluate_command_read_through(file, files, can_write, current_timestamp, name, no_cache) ==
    LET gatekeeper_result == load_and_evaluate_gatekeeper(files, name)
        cached == file.kind = "ok" /\ name \in DOMAIN file.cache
                  /\ ~is_cache_entry_expired(file.cache[name], current_timestamp)
    IN  CASE cached ->
                Outcome(file, files, "ok", Some(file.cache[name].value), {}, NoCounts)
          [] gatekeeper_result.kind = "err" ->
                Outcome(file, files, "err", None, {name}, NoCounts)
          [] gatekeeper_result.kind = "overflow" ->
                Outcome(file, files, "crash", None, {name}, NoCounts)
          [] OTHER ->
                LET w == IF no_cache
                         THEN [file |-> file, ok |-> TRUE]
                         ELSE cache_result_with_ttl(file, can_write, current_timestamp, name,
                                                    gatekeeper_result.value, "evaluate",
                                                    gatekeeper_result.ttl)
                IN  Outcome(w.file, files, "ok", Some(gatekeeper_result.value), {name}, NoCounts)

\* evaluate_command (main.rs)
evaluate_command(file, files, can_write, current_timestamp, name, no_cache) ==
    LET gatekeeper_result == load_and_evaluate_gatekeeper(files, name)
    IN  CASE gatekeeper_result.kind = "err" ->
                Outcome(file, files, "err", None, {name}, NoCounts)
          [] gatekeeper_result.kind = "overflow" ->
                Outcome(file, files, "crash", None, {name}, NoCounts)
          [] OTHER ->
                LET w == IF no_cache
                         THEN [file |-> file, ok |-> TRUE]
                         ELSE cache_result_with_ttl(file, can_write, current_timestamp, name,
                                                    gatekeeper_result.value, "evaluate",
                                                    gatekeeper_result.ttl)
                    \* the panic of the addition is no Err: it ends the process
                    panics == /\ ~no_cache
                              /\ file.kind # "malformed"
                              /\ overflow_checks
                              /\ add_overflows(current_timestamp, gatekeeper_result.ttl)
                IN  Outcome(w.file, files, IF panics THEN "crash" ELSE "ok",
                            Some(gatekeeper_result.value), {name}, NoCounts)

\* get_single_gatekeeper
get_single_gatekeeper(file, files, name) ==
    LET existing_cache == load_cache(file)
    IN  IF IsSome(existing_cache) /\ name \in DOMAIN Unwrap(existing_cache).cache
        THEN Outcome(file, files, "ok", Some(Unwrap(existing_cache).cache[name].value),
                     {}, NoCounts)
        ELSE Outcome(file, files, "err", None, {}, NoCounts)

\* get_all_gatekeepers
get_all_gatekeepers(file, files) == Outcome(file, files, "ok", None, {}, NoCounts)

-----------------------------------------------------------------------------
(* The Gatekeeper value sync_command loads: Gatekeeper::from_name,           *)
(* Gatekeeper::evaluate and the field ttl.  Loading resolves the path and    *)
(* reads the script, and fails when the file is not there; evaluating runs   *)
(* the one evaluation path; ttl is the TTL the gatekeeper declares.          *)

\* Gatekeeper::from_name(name) is Ok
Gatekeeper_from_name_ok(files, name) == GatekeeperFileExists(files, name)

\* gatekeeper.evaluate(), with gatekeeper.ttl in the field ttl
Gatekeeper_evaluate(files, name) == load_and_evaluate_gatekeeper(files, name)

-----------------------------------------------------------------------------
(* sync_command *)

RECURSIVE SumOccurrences(_, _)
SumOccurrences(bag, names) ==
    IF names = {} THEN 0
    ELSE LET n == CHOOSE n \in names : TRUE
         IN  bag[n] + SumOccurrences(bag, names \ {n})

\* should_remove without the exemption of manually set entries
should_remove_any_type(files, name, entry) == ~GatekeeperFileExists(files, name)

\* should_remove that never finds an orphan
should_remove_never(files, name, entry) == FALSE

\* should_remove of the first loop, for a non-expired entry that is no gatekeeper
should_remove(files, name, entry) ==
    CASE entry.update_type = "set" -> FALSE
      [] OTHER -> ~GatekeeperFileExists(files, name)

\* The first loop: the entries of names that are no gatekeepers which are kept
preserved_entries(files, gatekeepers, old, current_timestamp) ==
    {n \in DOMAIN old \ DOMAIN gatekeepers :
        /\ ~is_cache_entry_expired(old[n], current_timestamp)
        /\ ~should_remove(files, n, old[n])}

\* The first loop: the non-expired entries dropped as orphans
removed_entries(files, gatekeepers, old, current_timestamp) ==
    {n \in DOMAIN old \ DOMAIN gatekeepers :
        /\ ~is_cache_entry_expired(old[n], current_timestamp)
        /\ should_remove(files, n, old[n])}

\* should_evaluate without the test of the file's modification time
should_evaluate_ttl_only(files, old, current_timestamp, force, name) ==
    \/ force
    \/ name \notin DOMAIN old
    \/ (name \in DOMAIN old /\ is_cache_entry_expired(old[name], current_timestamp))

\* should_evaluate that evaluates every gatekeeper on every sync
should_evaluate_always(files, old, current_timestamp, force, name) == TRUE

\* should_evaluate of the second loop
should_evaluate(files, old, current_timestamp, force, name) ==
    \/ force
    \/ name \notin DOMAIN old
    \/ (name \in DOMAIN old
        /\ (\/ is_cache_entry_expired(old[name], current_timestamp)
            \/ is_gatekeeper_file_modified(files, name, old[name])))

\* The gatekeepers at which the second loop leaves sync_command without writing:
\* Gatekeeper::from_name(&name)? returns its error, or the evaluation exhausts the stack
sync_aborting(file, files, current_timestamp, force) ==
    LET old == LoadOrNew(file, current_timestamp).cache
    IN  {n \in DOMAIN find_all_gatekeepers(files) :
            /\ should_evaluate(files, old, current_timestamp, force, n)
            /\ \/ ~Gatekeeper_from_name_ok(files, n)
               \/ Gatekeeper_evaluate(files, n).kind = "overflow"}

\* sync_command stamping the entries it keeps with the time of the sync
sync_command_restamping(file, files, can_write, current_timestamp, force, first) ==
    IF file.kind = "malformed"
    THEN Outcome(file, files, "err", None, {}, NoCounts)
    ELSE
    LET old == LoadOrNew(file, current_timestamp).cache
        gatekeepers == find_all_gatekeepers(files)
        preserved == preserved_entries(files, gatekeepers, old, current_timestamp)
        removed == removed_entries(files, gatekeepers, old, current_timestamp)
        evals == {n \in DOMAIN gatekeepers :
                     should_evaluate(files, old, current_timestamp, force, n)}
        updated == {n \in evals : Gatekeeper_evaluate(files, n).kind = "ok"}
        skipped == (DOMAIN gatekeepers \ evals) \cap DOMAIN old
        fresh(n) == LET r == Gatekeeper_evaluate(files, n)
                    IN  Entry(r.value, current_timestamp, "sync",
                              expires_at_of(current_timestamp, r.ttl))
        cache_entries == [n \in preserved \cup updated \cup skipped |->
                             IF n \in updated THEN fresh(n)
                             ELSE [old[n] EXCEPT !.ts = current_timestamp]]
        counts == [updated |-> SumOccurrences(gatekeepers, updated),
                   skipped |-> SumOccurrences(gatekeepers, skipped),
                   preserved |-> Cardinality(preserved),
                   removed |-> Cardinality(removed)]
    IN  IF sync_aborting(file, files, current_timestamp, force) # {}
        THEN Outcome(file, files,
                     IF Gatekeeper_from_name_ok(files, first) THEN "crash" ELSE "err",
                     None, evals, NoCounts)
        ELSE IF ~can_write
        THEN Outcome(file, files, "err", None, evals, NoCounts)
        ELSE Outcome(Cache(cache_entries, current_timestamp), files, "ok", None, evals, counts)

\* sync_command writing the entries of its first loop before it gives up
sync_command_partial(file, files, can_write, current_timestamp, force, first) ==
    IF file.kind = "malformed"
    THEN Outcome(file, files, "err", None, {}, NoCounts)
    ELSE
    LET old == LoadOrNew(file, current_timestamp).cache
        gatekeepers == find_all_gatekeepers(files)
        preserved == preserved_entries(files, gatekeepers, old, current_timestamp)
        removed == removed_entries(files, gatekeepers, old, current_timestamp)
        evals == {n \in DOMAIN gatekeepers :
                     should_evaluate(files, old, current_timestamp, force, n)}
        updated == {n \in evals : Gatekeeper_evaluate(files, n).kind = "ok"}
        skipped == (DOMAIN gatekeepers \ evals) \cap DOMAIN old
        fresh(n) == LET r == Gatekeeper_evaluate(files, n)
                    IN  Entry(r.value, current_timestamp, "sync",
                              expires_at_of(current_timestamp, r.ttl))
        cache_entries == [n \in preserved \cup updated \cup skipped |->
                             IF n \in updated THEN fresh(n) ELSE old[n]]
        counts == [updated |-> SumOccurrences(gatekeepers, updated),
                   skipped |-> SumOccurrences(gatekeepers, skipped),
                   preserved |-> Cardinality(preserved),
                   removed |-> Cardinality(removed)]
    IN  IF sync_aborting(file, files, current_timestamp, force) # {}
        THEN Outcome(Cache(Restrict(old, preserved), current_timestamp), files,
                     IF Gatekeeper_from_name_ok(files, first) THEN "crash" ELSE "err",
                     None, evals, NoCounts)
        ELSE IF ~can_write
        THEN Outcome(file, files, "err", None, evals, NoCounts)
        ELSE Outcome(Cache(cache_entries, current_timestamp), files, "ok", None, evals, counts)

\* sync_command; `first` is the gatekeeper of sync_aborting the walk reaches first
sync_command(file, files, can_write, current_timestamp, force, first) ==
    IF file.kind = "malformed"
    THEN Outcome(file, files, "err", None, {}, NoCounts)
    ELSE
    LET old == LoadOrNew(file, current_timestamp).cache
        gatekeepers == find_all_gatekeepers(files)
        preserved == preserved_entries(files, gatekeepers, old, current_timestamp)
        removed == removed_entries(files, gatekeepers, old, current_timestamp)
        evals == {n \in DOMAIN gatekeepers :
                     should_evaluate(files, old, current_timestamp, force, n)}
        updated == {n \in evals : Gatekeeper_evaluate(files, n).kind = "ok"}
        skipped == (DOMAIN gatekeepers \ evals) \cap DOMAIN old
        fresh(n) == LET r == Gatekeeper_evaluate(files, n)
                    IN  Entry(r.value, current_timestamp, "sync",
                              expires_at_of(current_timestamp, r.ttl))
        cache_entries == [n \in preserved \cup updated \cup skipped |->
                             IF n \in updated THEN fresh(n) ELSE old[n]]
        counts == [updated |-> SumOccurrences(gatekeepers, updated),
                   skipped |-> SumOccurrences(gatekeepers, skipped),
                   preserved |-> Cardinality(preserved),
                   removed |-> Cardinality(removed)]
    IN  IF sync_aborting(file, files, current_timestamp, force) # {}
        THEN Outcome(file, files,
                     IF Gatekeeper_from_name_ok(files, first) THEN "crash" ELSE "err",
                     None, evals, NoCounts)
        ELSE IF overflow_checks
                /\ \E n \in updated :
                       add_overflows(current_timestamp, Gatekeeper_evaluate(files, n).ttl)
        THEN Outcome(file, files, "crash", None, evals, NoCounts)
        ELSE IF ~can_write
        THEN Outcome(file, files, "err", None, evals, NoCounts)
        ELSE Outcome(Cache(cache_entries, current_timestamp), files, "ok", None, evals, counts)

-----------------------------------------------------------------------------
(* rm_command; removal_ok is whether fs::remove_file succeeds *)

\* rm_command writing the cache document whether or not it held the name
rm_command_always_writing(file, files, can_write, current_timestamp, name, remove_file, removal_ok) ==
    IF file.kind = "malformed"
    THEN Outcome(file, files, "err", None, {}, NoCounts)
    ELSE
    LET cache == LoadOrNew(file, current_timestamp)
        cache_entry_existed == name \in DOMAIN cache.cache
        updated == Cache(Remove(cache.cache, name), current_timestamp)
        gatekeeper_path == get_gatekeeper_path(files, name)
        removes == remove_file /\ gatekeeper_path \in DOMAIN files
        files_after == IF removes /\ removal_ok THEN Remove(files, gatekeeper_path) ELSE files
    IN  IF removes /\ ~removal_ok
        THEN Outcome(file, files, "err", None, {}, NoCounts)
        ELSE IF ~can_write
        THEN Outcome(file, files_after, "err", None, {}, NoCounts)
        ELSE Outcome(updated, files_after, "ok", None, {}, NoCounts)

\* rm_command writing the cache document before it removes the file
rm_command_cache_first(file, files, can_write, current_timestamp, name, remove_file, removal_ok) ==
    IF file.kind = "malformed"
    THEN Outcome(file, files, "err", None, {}, NoCounts)
    ELSE
    LET cache == LoadOrNew(file, current_timestamp)
        cache_entry_existed == name \in DOMAIN cache.cache
        updated == Cache(Remove(cache.cache, name), current_timestamp)
        gatekeeper_path == get_gatekeeper_path(files, name)
        removes == remove_file /\ gatekeeper_path \in DOMAIN files
        files_after == IF removes /\ removal_ok THEN Remove(files, gatekeeper_path) ELSE files
    IN  IF removes /\ ~removal_ok
        THEN Outcome(IF cache_entry_existed /\ can_write THEN updated ELSE file,
                     files, "err", None, {}, NoCounts)
        ELSE IF ~cache_entry_existed
        THEN Outcome(file, files_after, "ok", None, {}, NoCounts)
        ELSE IF ~can_write
        THEN Outcome(file, files_after, "err", None, {}, NoCounts)
        ELSE Outcome(updated, files_after, "ok", None, {}, NoCounts)

rm_command(file, files, can_write, current_timestamp, name, remove_file, removal_ok) ==
    IF file.kind = "malformed"
    THEN Outcome(file, files, "err", None, {}, NoCounts)
    ELSE
    LET cache == LoadOrNew(file, current_timestamp)
        cache_entry_existed == name \in DOMAIN cache.cache
        updated == Cache(Remove(cache.cache, name), current_timestamp)
        gatekeeper_path == get_gatekeeper_path(files, name)
        removes == remove_file /\ gatekeeper_path \in DOMAIN files
        files_after == IF removes /\ removal_ok THEN Remove(files, gatekeeper_path) ELSE files
    IN  IF removes /\ ~removal_ok
        THEN Outcome(file, files, "err", None, {}, NoCounts)
        ELSE IF ~cache_entry_existed
        THEN Outcome(file, files_after, "ok", None, {}, NoCounts)
        ELSE IF ~can_write
        THEN Outcome(file, files_after, "err", None, {}, NoCounts)
        ELSE Outcome(updated, files_after, "ok", None, {}, NoCounts)

-----------------------------------------------------------------------------
(* The commands as actions on the cache file and the gatekeeper files *)

A == <<"a">>
B == <<"b">>
X == <<"x">>
DE == <<"d", "/", "e">>
DE_init == <<"d", "/", "e", "/", "init">>

\* The names given to the commands
CmdNames == {A, X}
\* The TTLs given to set
SetTtls == {None, Some(1), Some(2)}
\* What a.lua can hold
MainScripts == {ReturnBool(FALSE), ReturnBoolTtlComment(TRUE, 2), ReturnString}

NoCommand ==
    [op |-> "none", name |-> <<>>, value |-> FALSE, ttl |-> None, flag |-> FALSE,
     status |-> "ok", printed |-> None, evals |-> {}, counts |-> NoCounts,
     t |-> 0, old |-> Absent, files |-> EmptyMap, ret |-> None,
     args |-> <<>>]

Command(op, name, value, ttl, flag, out) ==
    [op |-> op, name |-> name, value |-> value, ttl |-> ttl, flag |-> flag,
     status |-> out.status, printed |-> out.printed, evals |-> out.evals,
     counts |-> out.counts, t |-> now, old |-> cacheFile, files |-> fs, ret |-> None,
     args |-> <<>>]

Run(op, name, value, ttl, flag, out) ==
    /\ ops < MaxOps
    /\ ops' = ops + 1
    /\ cacheFile' = out.file
    /\ fs' = out.files
    /\ last' = Command(op, name, value, ttl, flag, out)
    /\ UNCHANGED <<writable, now, stack, evalResult, target_os, procs,
                 overflow_checks>>

Set(name, value, ttl) ==
    Run("set", name, value, ttl, FALSE,
        set_command(cacheFile, fs, writable, now, name, value, ttl))

Evaluate(name, no_cache) ==
    Run("evaluate", name, FALSE, None, no_cache,
        evaluate_command(cacheFile, fs, writable, now, name, no_cache))

Get(name) ==
    Run("get", name, FALSE, None, FALSE, get_single_gatekeeper(cacheFile, fs, name))

GetAll ==
    Run("get_all", <<>>, FALSE, None, FALSE, get_all_gatekeepers(cacheFile, fs))

Sync(force) ==
    LET aborting == sync_aborting(cacheFile, fs, now, force)
    IN  \E first \in (IF aborting = {} THEN {<<>>} ELSE aborting) :
            Run("sync", <<>>, FALSE, None, force,
                sync_command(cacheFile, fs, writable, now, force, first))

Rm(name, remove_file, removal_ok) ==
    Run("rm", name, FALSE, None, remove_file,
        rm_command(cacheFile, fs, writable, now, name, remove_file, removal_ok))

\* A second passes
Tick ==
    /\ now < MaxTime
    /\ now' = now + 1
    /\ UNCHANGED <<fs, cacheFile, writable, ops, last, stack, evalResult, target_os, procs,
                 overflow_checks>>

\* The user saves a gatekeeper file: its modification time becomes the current time
Touch(path) ==
    /\ path \in DOMAIN fs
    /\ fs[path].mtime < now
    /\ fs' = [fs EXCEPT ![path].mtime = now]
    /\ UNCHANGED <<cacheFile, writable, now, ops, last, stack, evalResult, target_os, procs,
                 overflow_checks>>

MainFiles(a, de) ==
    [p \in (IF a = None THEN {} ELSE {A}) \cup {B} \cup (IF de THEN {DE_init} ELSE {}) |->
        IF p = A THEN File(0, Unwrap(a)) ELSE File(0, ReturnBool(TRUE))]

Init ==
    /\ overflow_checks = FALSE
    /\ procs = <<>>
    /\ target_os = "linux"
    /\ \E a \in {None} \cup {Some(s) : s \in MainScripts}, de \in BOOLEAN :
           fs = MainFiles(a, de)
    /\ cacheFile = Absent
    /\ writable = TRUE
    /\ now = 0
    /\ ops = 0
    /\ last = NoCommand
    /\ stack = <<>>
    /\ evalResult = NoResult

Next ==
    \/ \E name \in CmdNames, value \in BOOLEAN, ttl \in SetTtls : Set(name, value, ttl)
    \/ \E name \in CmdNames, no_cache \in BOOLEAN : Evaluate(name, no_cache)
    \/ \E name \in CmdNames : Get(name)
    \/ GetAll
    \/ \E force \in BOOLEAN : Sync(force)
    \/ \E name \in CmdNames, remove_file \in BOOLEAN, removal_ok \in BOOLEAN :
           /\ ~removal_ok => remove_file /\ GatekeeperFileExists(fs, name)
           /\ Rm(name, remove_file, removal_ok)
    \/ Tick
    \/ Touch(A)

Spec == Init /\ [][Next]_vars

-----------------------------------------------------------------------------
(* One top-level evaluation, step by step *)

\* What a.lua and b.lua can hold
EvalScripts ==
    {ReturnBool(TRUE), ReturnBool(FALSE), ReturnString,
     ReturnRequires(<<A>>), ReturnRequires(<<B>>), ReturnRequires(<<B, B>>),
     ReturnRequires(<<X>>)}

EvalNames == {A, B, X}

\* load_and_evaluate_gatekeeper(name) is called
EvalStart(name) ==
    /\ stack = <<>>
    /\ evalResult.kind = "none"
    /\ last.op = "none"
    /\ LET m == load_and_evaluate_gatekeeper_with_context(fs, <<>>, name)
       IN  /\ stack' = m.stack
           /\ evalResult' = m.result
    /\ last' = [NoCommand EXCEPT !.op = "evaluate", !.name = name]
    /\ UNCHANGED <<fs, cacheFile, writable, now, ops, target_os, procs,
                 overflow_checks>>

\* The executor on top of the stack takes its next step
EvalStep ==
    /\ stack # <<>>
    /\ LET m == execute_step(fs, stack)
       IN  /\ stack' = m.stack
           /\ evalResult' = m.result
    /\ UNCHANGED <<fs, cacheFile, writable, now, ops, last, target_os, procs,
                 overflow_checks>>

InitEval ==
    /\ overflow_checks = FALSE
    /\ procs = <<>>
    /\ target_os = "linux"
    /\ \E a \in EvalScripts, b \in EvalScripts :
           fs = [p \in {A, B} |-> File(0, IF p = A THEN a ELSE b)]
    /\ cacheFile = Absent
    /\ writable = TRUE
    /\ now = 0
    /\ ops = 0
    /\ last = NoCommand
    /\ stack = <<>>
    /\ evalResult = NoResult

NextEval ==
    \/ \E name \in EvalNames : EvalStart(name)
    \/ EvalStep

SpecEval == InitEval /\ [][NextEval]_vars

-----------------------------------------------------------------------------
(* Claims *)

\* The gatekeepers a script requires: the names its require calls resolve to
Requires(files, name) ==
    IF ~GatekeeperFileExists(files, name) THEN {}
    ELSE LET reqs == files[get_gatekeeper_path(files, name)].script.reqs
         IN  {Unwrap(FirstFound(files, paths_to_try(replace_dots(reqs[i])))) :
                 i \in {j \in 1..Len(reqs) :
                           IsSome(FirstFound(files, paths_to_try(replace_dots(reqs[j]))))}}

\* C1: evaluating a gatekeeper whose require chain reaches it again ends with a
\* circular-dependency error and never nests without bound: the evaluations in
\* progress are never more than the gatekeeper files plus one (a deeper nesting
\* evaluates some gatekeeper below itself a second time), the stack is never
\* exhausted, and a finished evaluation of a gatekeeper that requires itself
\* has failed as circular.
C1_CycleEndsInCircularError ==
    /\ Len(stack) <= Cardinality(DOMAIN fs) + 1
    /\ evalResult.kind # "overflow"
    /\ (evalResult.kind # "none" /\ last.name \in Requires(fs, last.name))
           => (evalResult.kind = "err" /\ evalResult.why = "circular")


-----------------------------------------------------------------------------
(* What the claims about the commands speak of, stated on the last command *)

\* The entries before and after the last command
OldCache == last.old.cache
NewCache == cacheFile.cache
\* The time the last command ran at
T == last.t
\* The gatekeepers the last command found
Gatekeepers == DOMAIN find_all_gatekeepers(last.files)

\* The entry is TTL-expired at time t
ExpiredAt(entry, t) == entry.expires_at # None /\ t >= entry.expires_at[1]

\* The source file of the gatekeeper is newer than the entry, or cannot be read
SourceNewer(files, name, entry) ==
    \/ get_gatekeeper_path(files, name) \notin DOMAIN files
    \/ files[get_gatekeeper_path(files, name)].mtime > entry.ts

\* The TTL the script of the gatekeeper declares
DeclaredTtl(files, name) ==
    LET script == files[get_gatekeeper_path(files, name)].script
    IN  IF script.shape = "table" /\ script.ttl # None THEN script.ttl ELSE script.ttlc

\* expires_at for a write at time t with the TTL given
ExpiresAtFor(t, ttl) == IF ttl = None THEN None ELSE <<t + ttl[1]>>

\* The evaluation of the gatekeeper, run on the files the last command saw
Evaluated(name) == load_and_evaluate_gatekeeper(last.files, name)

\* The entry a sync at time T writes for a gatekeeper it evaluated
IsFreshSyncEntry(name) ==
    /\ name \in DOMAIN NewCache
    /\ NewCache[name] = Entry(Evaluated(name).value, T, "sync",
                              ExpiresAtFor(T, DeclaredTtl(last.files, name)))

Synced == last.op = "sync" /\ last.status = "ok"

\* C2 as claimed: a sync copies every entry of provenance Set whose name is no
\* gatekeeper into the new cache, expired or not.
C2_SetEntriesCopiedEvenExpired ==
    Synced =>
        \A n \in DOMAIN OldCache \ Gatekeepers :
            OldCache[n].update_type = "set"
                => (n \in DOMAIN NewCache /\ NewCache[n] = OldCache[n])

\* C2 as amended: a sync copies an entry of provenance Set whose name is no
\* gatekeeper into the new cache unchanged when the entry is not TTL-expired
\* at the time of the sync, and leaves it out when it is.
C2_UnexpiredSetEntriesCopied ==
    Synced =>
        \A n \in DOMAIN OldCache \ Gatekeepers :
            OldCache[n].update_type = "set"
                => IF ExpiredAt(OldCache[n], T)
                   THEN n \notin DOMAIN NewCache
                   ELSE n \in DOMAIN NewCache /\ NewCache[n] = OldCache[n]

C2_Witness ==
    /\ Synced
    /\ \E n \in DOMAIN OldCache \ Gatekeepers :
           /\ OldCache[n].update_type = "set"
           /\ OldCache[n].expires_at # None
           /\ ~ExpiredAt(OldCache[n], T)
           /\ NewCache[n] = OldCache[n]

\* C3: sync never deletes a manual override: for every name with an entry of
\* provenance Set in the old cache, gatekeeper or not, forced or not, the cache
\* written by sync holds an entry.
C3_SyncKeepsEverySetName ==
    Synced =>
        \A n \in DOMAIN OldCache :
            OldCache[n].update_type = "set" => n \in DOMAIN NewCache

\* C4: a gatekeeper that fails to load or to evaluate never ends the sync: the
\* sync returns Ok, the new document is written, the failing gatekeeper is left
\* out of it and every other gatekeeper it evaluated is in it.
C4_FailureNeverAbortsSync ==
    last.op = "sync" =>
        /\ last.status = "ok"
        /\ cacheFile.kind = "ok" /\ cacheFile.ts = T
        /\ \A g \in last.evals :
               IF Gatekeeper_from_name_ok(last.files, g) /\ Evaluated(g).kind = "ok"
               THEN IsFreshSyncEntry(g)
               ELSE g \notin DOMAIN NewCache


\* The entry an evaluation at time T writes back for the gatekeeper
IsFreshEvaluateEntry(name) ==
    /\ name \in DOMAIN NewCache
    /\ NewCache[name] = Entry(Evaluated(name).value, T, "evaluate",
                              ExpiresAtFor(T, DeclaredTtl(last.files, name)))

MustReevaluate(k) ==
    \/ last.flag
    \/ k \notin DOMAIN OldCache
    \/ ExpiredAt(OldCache[k], T)
    \/ SourceNewer(last.files, k, OldCache[k])

TouchedSinceCached(g) ==
    /\ g \in DOMAIN OldCache
    /\ ~ExpiredAt(OldCache[g], T)
    /\ get_gatekeeper_path(last.files, g) \in DOMAIN last.files
    /\ last.files[get_gatekeeper_path(last.files, g)].mtime > OldCache[g].ts

C10_SetOverwritesWholesale ==
    last.op = "set" =>
        /\ last.status = "ok"
        /\ last.name \in DOMAIN NewCache
        /\ NewCache[last.name]
               = [value |-> last.value, ts |-> T, update_type |-> "set",
                  expires_at |-> ExpiresAtFor(T, last.ttl)]

C10_Witness ==
    /\ last.op = "set"
    /\ last.name \in DOMAIN OldCache
    /\ OldCache[last.name].update_type = "evaluate"
    /\ OldCache[last.name].expires_at # None
    /\ OldCache[last.name].value # last.value
    /\ last.ttl = None
    /\ NewCache[last.name].expires_at = None


-----------------------------------------------------------------------------
(* is_cache_entry_expired on its own: an entry a write can have produced,   *)
(* asked about at any time                                                  *)

\* is_cache_entry_expired(entry, now) is called on the entry of `name`
ExpiryCheck(name) ==
    /\ last.op = "none"
    /\ name \in DOMAIN cacheFile.cache
    /\ last' = [NoCommand EXCEPT
                   !.op = "is_cache_entry_expired", !.name = name, !.t = now,
                   !.old = cacheFile,
                   !.flag = is_cache_entry_expired(cacheFile.cache[name], now)]
    /\ UNCHANGED <<fs, cacheFile, writable, now, ops, stack, evalResult, target_os, procs,
                 overflow_checks>>

InitExpiry ==
    /\ overflow_checks = FALSE
    /\ procs = <<>>
    /\ target_os = "linux"
    /\ \E value \in BOOLEAN, ts \in 0..MaxTime, update_type \in UpdateTypes,
          ttl \in {None} \cup {Some(n) : n \in 0..MaxTtl} :
           cacheFile = Cache([n \in {A} |-> Entry(value, ts, update_type,
                                                  expires_at_of(ts, ttl))], ts)
    /\ now \in 0..(MaxTime + MaxTtl + 1)
    /\ fs = EmptyMap
    /\ writable = TRUE
    /\ ops = 0
    /\ last = NoCommand
    /\ stack = <<>>
    /\ evalResult = NoResult

NextExpiry == \E name \in CmdNames : ExpiryCheck(name)

SpecExpiry == InitExpiry /\ [][NextExpiry]_vars

\* C9: an entry is TTL-expired at time t iff it has an expires_at and
\* t >= expires_at: never without an expires_at, and already at t = expires_at.
C9_ExpiredIffAtOrAfterExpiresAt ==
    last.op = "is_cache_entry_expired" =>
        LET entry == OldCache[last.name]
        IN  /\ last.flag <=> (entry.expires_at # None /\ T >= entry.expires_at[1])
            /\ entry.expires_at = None => ~last.flag
            /\ entry.expires_at = <<T>> => last.flag

C9_Witness ==
    /\ last.op = "is_cache_entry_expired"
    /\ OldCache[last.name].expires_at = <<T>>
    /\ T > OldCache[last.name].ts
    /\ last.flag

-----------------------------------------------------------------------------
(* Manual entries of names that are no gatekeepers *)

\* C11: after set(x, v, ttl) for a name x that resolves to no gatekeeper file, a
\* sync run before expires_at (or at any time when no TTL was given) leaves the
\* entry of x in the cache verbatim: same value, ts, provenance Set, expires_at.
C11_SetEntryOfNoGatekeeperSurvivesSync ==
    last.op = "sync" =>
        \A x \in DOMAIN OldCache :
            (/\ OldCache[x].update_type = "set"
             /\ ~GatekeeperFileExists(last.files, x)
             /\ (OldCache[x].expires_at = None \/ T < OldCache[x].expires_at[1]))
                => /\ x \in DOMAIN NewCache
                   /\ NewCache[x] = OldCache[x]

C11_Witness ==
    /\ Synced
    /\ \E x \in DOMAIN OldCache :
           /\ OldCache[x].update_type = "set"
           /\ ~GatekeeperFileExists(last.files, x)
           /\ OldCache[x].expires_at # None
           /\ T > OldCache[x].ts
           /\ T < OldCache[x].expires_at[1]
           /\ NewCache[x] = OldCache[x]

-----------------------------------------------------------------------------
(* Reconciliation of a cache earlier runs have left: entries of every        *)
(* provenance for names that are no gatekeepers any more, with and without   *)
(* a file the name still resolves to, and a sync run twice in a row.         *)

D == <<"d">>
D_init == <<"d", "/", "init">>

\* The names with entries in the cache sync starts from: x resolves to no file,
\* d/init resolves to d/init.lua, which the walk lists as d
ReconcileNames == {X, D_init}
\* The entries an earlier run at time 0 can have written
ReconcileEntries == {Entry(TRUE, 0, u, e) : u \in UpdateTypes, e \in {None, Some(1)}}
\* What a.lua can hold
ReconcileScripts ==
    {ReturnBool(TRUE), ReturnBoolTtlComment(TRUE, 0), ReturnBoolTtlComment(TRUE, 1), ReturnString}

ReconcileFiles(a, d) ==
    [p \in {A} \cup (IF d THEN {D_init} ELSE {}) |->
        IF p = A THEN File(0, a) ELSE File(0, ReturnBool(FALSE))]

\* sync_command(None, false) run again right after a non-forced sync that completed
SyncAgain ==
    /\ Synced
    /\ ~last.flag
    /\ fs = last.files
    /\ Run("sync_again", <<>>, FALSE, None, FALSE,
           sync_command(cacheFile, fs, writable, now, FALSE, <<>>))

InitReconcile ==
    /\ overflow_checks = FALSE
    /\ procs = <<>>
    /\ target_os = "linux"
    /\ \E a \in ReconcileScripts, d \in BOOLEAN : fs = ReconcileFiles(a, d)
    /\ \E names \in SUBSET ReconcileNames :
           \E cache \in [names -> ReconcileEntries] : cacheFile = Cache(cache, 0)
    /\ writable = TRUE
    /\ now = 0
    /\ ops = 0
    /\ last = NoCommand
    /\ stack = <<>>
    /\ evalResult = NoResult

NextReconcile ==
    \/ \E force \in BOOLEAN : Sync(force)
    \/ SyncAgain
    \/ Tick

SpecReconcile == InitReconcile /\ [][NextReconcile]_vars

\* A sync, first or repeated, that wrote its cache
Reconciled == last.op \in {"sync", "sync_again"} /\ last.status = "ok"

\* C12: in sync, an old entry of provenance Evaluate or Sync whose name is no
\* current gatekeeper is dropped when it is TTL-expired, dropped as an orphan
\* when it is not expired and the file its name resolves to does not exist, and
\* copied into the new cache unchanged when it is not expired and that file exists.
C12_EvaluatedEntriesOfNoGatekeeper ==
    Reconciled =>
        \A n \in DOMAIN OldCache \ Gatekeepers :
            OldCache[n].update_type \in {"evaluate", "sync"} =>
                IF ExpiredAt(OldCache[n], T)
                THEN n \notin DOMAIN NewCache
                ELSE IF get_gatekeeper_path(last.files, n) \notin DOMAIN last.files
                THEN n \notin DOMAIN NewCache
                ELSE n \in DOMAIN NewCache /\ NewCache[n] = OldCache[n]

C12_Witness ==
    /\ Reconciled
    /\ \E n \in DOMAIN OldCache \ Gatekeepers :
           /\ OldCache[n].update_type = "evaluate"
           /\ ~ExpiredAt(OldCache[n], T)
           /\ get_gatekeeper_path(last.files, n) \in DOMAIN last.files
           /\ NewCache[n] = OldCache[n]
    /\ \E n \in DOMAIN OldCache \ Gatekeepers :
           /\ OldCache[n].update_type = "sync"
           /\ ~ExpiredAt(OldCache[n], T)
           /\ get_gatekeeper_path(last.files, n) \notin DOMAIN last.files
           /\ n \notin DOMAIN NewCache
    /\ last.counts.removed = 1

\* C13 as claimed: a non-forced sync run again after a non-forced sync that
\* completed, the gatekeeper files unchanged and the clock still at the second
\* of the first sync, reports zero re-evaluations, skips every gatekeeper that
\* has an entry and leaves every entry unchanged.
C13_SecondSyncChangesNothing ==
    (last.op = "sync_again" /\ T = last.old.ts) =>
        /\ last.counts.updated = 0
        /\ last.evals \cap DOMAIN OldCache = {}
        /\ last.counts.skipped = SumOccurrences(find_all_gatekeepers(last.files),
                                                Gatekeepers \cap DOMAIN OldCache)
        /\ NewCache = OldCache

\* C13 as amended: the same, when no entry of the cache is TTL-expired at the
\* time of the second sync; an entry that has expired by then is evaluated
\* again when its name is a gatekeeper and dropped when it is not.
C13_SecondSyncChangesNothingUnlessExpired ==
    last.op = "sync_again" =>
        /\ (\A n \in DOMAIN OldCache : ~ExpiredAt(OldCache[n], T)) =>
               /\ last.counts.updated = 0
               /\ last.evals \cap DOMAIN OldCache = {}
               /\ last.counts.skipped = SumOccurrences(find_all_gatekeepers(last.files),
                                                       Gatekeepers \cap DOMAIN OldCache)
               /\ NewCache = OldCache
        /\ \A n \in DOMAIN OldCache :
               ExpiredAt(OldCache[n], T) =>
                   IF n \in Gatekeepers
                   THEN n \in last.evals /\ IsFreshSyncEntry(n)
                   ELSE n \notin DOMAIN NewCache

C13_Witness ==
    /\ last.op = "sync_again"
    /\ T > last.old.ts
    /\ \A n \in DOMAIN OldCache : ~ExpiredAt(OldCache[n], T)
    /\ Gatekeepers \cap DOMAIN OldCache = {A, D}
    /\ DOMAIN OldCache \ Gatekeepers # {}
    /\ last.counts.skipped = 2
    /\ NewCache = OldCache

-----------------------------------------------------------------------------
(* The commands on a cache file that is absent, malformed or well-formed and *)
(* that can or cannot be written, with scripts that evaluate and that fail   *)

\* What a.lua can hold: two scripts that evaluate, and a wrongly shaped return
\* value, a syntax error and a require of a gatekeeper that is not there
IOScripts ==
    {ReturnBool(TRUE), ReturnTable(FALSE, 1), ReturnString, SyntaxError, ReturnRequires(<<X>>)}

\* The cache files the commands find
IOCacheFiles == {Absent, Malformed, Cache([n \in {A} |-> Entry(FALSE, 0, "set", None)], 0)}

InitIO ==
    /\ overflow_checks = FALSE
    /\ procs = <<>>
    /\ target_os = "linux"
    /\ \E a \in IOScripts : fs = [p \in {A} |-> File(0, a)]
    /\ cacheFile \in IOCacheFiles
    /\ writable \in BOOLEAN
    /\ now = 0
    /\ ops = 0
    /\ last = NoCommand
    /\ stack = <<>>
    /\ evalResult = NoResult

NextIO ==
    \/ \E name \in CmdNames, value \in BOOLEAN, ttl \in SetTtls : Set(name, value, ttl)
    \/ \E name \in CmdNames, no_cache \in BOOLEAN : Evaluate(name, no_cache)
    \/ \E name \in CmdNames : Get(name)
    \/ \E force \in BOOLEAN : Sync(force)
    \/ \E name \in CmdNames, remove_file \in BOOLEAN : Rm(name, remove_file, TRUE)

SpecIO == InitIO /\ [][NextIO]_vars

\* The outcome of the last command had it found no cache file
AsIfAbsent ==
    CASE last.op = "set" ->
            set_command(Absent, last.files, writable, T, last.name, last.value, last.ttl)
      [] last.op = "evaluate" ->
            evaluate_command(Absent, last.files, writable, T, last.name, last.flag)
      [] last.op = "get" -> get_single_gatekeeper(Absent, last.files, last.name)
      [] last.op = "sync" -> sync_command(Absent, last.files, writable, T, last.flag, <<>>)
      [] last.op = "rm" ->
            rm_command(Absent, last.files, writable, T, last.name, last.flag, TRUE)

\* C14: get, set, evaluate with caching, sync and rm treat a cache file that is
\* there but malformed as if it were absent: the command does not fail because
\* of it and ends as it ends from an empty cache.
C14_MalformedCacheIsAbsentCache ==
    (/\ last.op \in {"set", "evaluate", "get", "sync", "rm"}
     /\ ~(last.op = "evaluate" /\ last.flag)
     /\ last.old.kind = "malformed")
        => /\ last.status = AsIfAbsent.status
           /\ cacheFile = AsIfAbsent.file
           /\ fs = AsIfAbsent.files

\* C15: when the evaluation in evaluate succeeds and the write of the cache
\* fails, the command prints the evaluated boolean and returns Ok.
C15_EvaluateSurvivesWriteFailure ==
    (/\ last.op = "evaluate"
     /\ ~last.flag
     /\ Evaluated(last.name).kind = "ok"
     /\ (~writable \/ last.old.kind = "malformed"))
        => /\ last.status = "ok"
           /\ last.printed = Some(Evaluated(last.name).value)
           /\ cacheFile = last.old

C15_Witness ==
    /\ last.op = "evaluate"
    /\ ~last.flag
    /\ Evaluated(last.name).kind = "ok"
    /\ ~writable
    /\ last.old.kind = "ok"
    /\ last.status = "ok"
    /\ last.printed = Some(FALSE)

\* C16: when the evaluation in evaluate fails (no such gatekeeper, a syntax
\* error, a wrongly shaped return value, a require that fails), the command
\* returns the error after the one evaluation, prints no value and leaves the
\* cache file as it was.
C16_EvaluationFailureFailsEvaluate ==
    (last.op = "evaluate" /\ Evaluated(last.name).kind = "err")
        => /\ last.status = "err"
           /\ last.printed = None
           /\ last.evals = {last.name}
           /\ cacheFile = last.old

C16_Witness ==
    /\ last.op = "evaluate"
    /\ ~last.flag
    /\ writable
    /\ Evaluated(last.name).kind = "err"
    /\ Evaluated(last.name).why = "shape"
    /\ last.name \in DOMAIN OldCache
    /\ last.status = "err"
    /\ NewCache = OldCache

-----------------------------------------------------------------------------
(* Evaluations of a script a.lua that requires b.lua, each with a TTL of its *)
(* own: the TTL of a result, the value require hands to the script, and the  *)
(* in-progress set around sibling requires.  No script here requires a       *)
(* gatekeeper that requires it back.                                         *)

\* What a.lua can hold; its TTLs are 1 (table) and 2 (comment)
RequiringScripts ==
    {ReturnBool(TRUE), ReturnBoolTtlComment(FALSE, 2), ReturnTable(TRUE, 1),
     Script(TRUE, Some(2), <<>>, "table", "false", Some(1)),
     Script(TRUE, Some(2), <<>>, "table", "true", None),
     Script(TRUE, None, <<>>, "table", "true", None),
     ReturnRequires(<<B>>), ReturnRequires(<<B, B>>), ReturnLastRequire(<<B, B>>),
     Script(TRUE, Some(2), <<B>>, "bool", "reqs", None),
     Script(TRUE, Some(2), <<B>>, "table", "reqs", Some(1))}

\* What b.lua can hold; its TTL is 3
RequiredScripts ==
    {ReturnBool(TRUE), ReturnBoolTtlComment(FALSE, 3), ReturnBoolTtlComment(TRUE, 3),
     ReturnTable(FALSE, 3), ReturnString, SyntaxError}

InitRequire ==
    /\ overflow_checks = FALSE
    /\ procs = <<>>
    /\ target_os = "linux"
    /\ \E a \in RequiringScripts, b \in RequiredScripts :
           fs = [p \in {A, B} |-> File(0, IF p = A THEN a ELSE b)]
    /\ cacheFile = Absent
    /\ writable = TRUE
    /\ now = 0
    /\ ops = 0
    /\ last = NoCommand
    /\ stack = <<>>
    /\ evalResult = NoResult

NextRequire ==
    \/ \E name \in {A, B} : EvalStart(name)
    \/ EvalStep

SpecRequire == InitRequire /\ [][NextRequire]_vars

\* The script of the gatekeeper under evaluation
TopScript == fs[get_gatekeeper_path(fs, last.name)].script

\* The top-level evaluation has finished with a result
Finished == last.op = "evaluate" /\ evalResult.kind = "ok"

\* C17: after require(n) has returned to the calling script, with a value or
\* with an error, n is not in the in-progress set: the set of an executor holds
\* only the name whose nested evaluation it is waiting for; so a script that
\* requires the same gatekeeper twice in sequence, also after a first attempt
\* that failed, is never reported as a circular dependency.
C17_SiblingRequireIsNotCircular ==
    /\ \A i \in 1..Len(stack) :
           stack[i].visited = (IF i < Len(stack) THEN {stack[i + 1].name} ELSE {})
    /\ \A i \in 1..Len(stack) : stack[i].failed # "circular"
    /\ ~(evalResult.kind = "err" /\ evalResult.why = "circular")

\* The second of two requires of b has finished, the first attempt having failed
C17_Witness ==
    /\ last.op = "evaluate"
    /\ last.name = A
    /\ TopScript = ReturnLastRequire(<<B, B>>)
    /\ load_and_evaluate_gatekeeper(fs, B).kind = "err"
    /\ stack # <<>>
    /\ stack[1].pc = 2
    /\ stack[1].vals = <<FALSE>>
    /\ stack[1].failed = "shape"
    /\ stack[1].visited = {}

C20_RequireYieldsValueWithoutTtl ==
    /\ (Finished /\ TopScript.value = "reqs" /\ TopScript.reqs # <<>>) =>
           /\ evalResult.value
                  = (\A n \in Requires(fs, last.name) :
                         load_and_evaluate_gatekeeper(fs, n).value)
           /\ evalResult.ttl = DeclaredTtl(fs, last.name)
    /\ \A i \in 1..Len(stack) :
           \A j \in 1..Len(stack[i].vals) :
               (stack[i].script.value = "reqs") =>
                   LET n == Unwrap(FirstFound(fs, paths_to_try(replace_dots(
                                                     stack[i].script.reqs[j]))))
                   IN  stack[i].vals[j] = load_and_evaluate_gatekeeper(fs, n).value

C20_Witness ==
    /\ Finished
    /\ last.name = A
    /\ TopScript.reqs = <<B>>
    /\ TopScript.ttlc = <<2>>
    /\ load_and_evaluate_gatekeeper(fs, B) = Ok(FALSE, <<3>>)
    /\ evalResult = Ok(FALSE, <<2>>)

\* C18: at every point of a top-level evaluation the in-progress set require
\* consults, one set shared by all nested evaluations, holds exactly the names
\* whose evaluation is on the require call stack, so that require of a name on
\* the stack fails at once: no name is on the require call stack twice.
C18_OneInProgressSetPerCallTree ==
    /\ \A i \in 1..Len(stack) :
           stack[i].visited = {stack[j].name : j \in 2..Len(stack)}
    /\ \A i, j \in 2..Len(stack) : stack[i].name = stack[j].name => i = j

-----------------------------------------------------------------------------
(* The resolver and the walk on every tree of files a, d, d/init, d/e and    *)
(* d/e/init, and a sync of such a tree                                       *)

TreePaths == {A, D, D_init, DE, DE_init}
TreeNames == {A, D, D_init, DE, X}

\* A function of the program is called on its own and returns ret
Call(op, name, ret) ==
    /\ last.op = "none"
    /\ last' = [NoCommand EXCEPT !.op = op, !.name = name, !.files = fs, !.ret = ret]
    /\ UNCHANGED <<fs, cacheFile, writable, now, ops, stack, evalResult, target_os, procs,
                 overflow_checks>>

\* get_gatekeeper_path(name)
Resolve(name) == Call("get_gatekeeper_path", name, Some(get_gatekeeper_path(fs, name)))

\* find_all_gatekeepers()
ListAll == Call("find_all_gatekeepers", <<>>, Some(find_all_gatekeepers(fs)))

InitTree ==
    /\ overflow_checks = FALSE
    /\ procs = <<>>
    /\ target_os = "linux"
    /\ \E paths \in SUBSET TreePaths :
           fs = [p \in paths |-> File(0, ReturnBool(Last(p) # "init"))]
    /\ cacheFile = Absent
    /\ writable = TRUE
    /\ now = 0
    /\ ops = 0
    /\ last = NoCommand
    /\ stack = <<>>
    /\ evalResult = NoResult

\* require(module_name), called by a script that is on its own on the stack:
\* the machine after the searcher and the call of the loader
RequireModule(module_name) ==
    Call("require", module_name,
         Some(require(fs, <<NewFrame(<<"top">>, ReturnRequires(<<module_name>>))>>,
                      module_name)))

NextTree ==
    \/ \E name \in TreeNames : Resolve(name)
    \/ ListAll
    \/ \E force \in BOOLEAN : Sync(force)
    \/ \E module_name \in {<<"a">>, <<"d">>, <<"d", ".", "e">>, <<"d", "/", "e">>,
                           <<"d", ".", "init">>, <<"x">>} : RequireModule(module_name)

SpecTree == InitTree /\ [][NextTree]_vars

\* C21: for a name without '/', get_gatekeeper_path gives <name>.lua if that
\* file exists, else <name>/init.lua if that file exists, else <name>.lua; for
\* a name with a '/', it gives <name>.lua whatever files exist.
C21_DirectFileThenInitFile ==
    last.op = "get_gatekeeper_path" =>
        LET name == last.name
            slash == \E i \in 1..Len(name) : name[i] = "/"
            init == name \o <<"/", "init">>
        IN  IF slash THEN last.ret = <<name>>
            ELSE IF name \in DOMAIN last.files THEN last.ret = <<name>>
            ELSE IF init \in DOMAIN last.files THEN last.ret = <<init>>
            ELSE last.ret = <<name>>

C21_Witness ==
    /\ last.op = "get_gatekeeper_path"
    /\ last.name = DE
    /\ DE \notin DOMAIN last.files
    /\ DE_init \in DOMAIN last.files
    /\ last.ret = <<DE>>

\* C22: find_all_gatekeepers returns each gatekeeper name at most once, also
\* when both <d>.lua and <d>/init.lua exist, and returns nothing when there is
\* no file under the root.
C22_EachNameListedOnce ==
    last.op = "find_all_gatekeepers" =>
        /\ \A n \in DOMAIN last.ret[1] : last.ret[1][n] <= 1
        /\ DOMAIN last.files = {} => DOMAIN last.ret[1] = {}

-----------------------------------------------------------------------------
(* The primitives a script calls: lua_executor.rs, register_functions        *)

MaxLen == 3

\* The operating systems the program is built for
TargetOses == {"linux", "macos", "windows", "freebsd"}

\* The identifiers a script passes to os
OsNames == {"linux", "macos", "darwin", "windows", "unix", "Linux", "freebsd", ""}

\* The tables of booleans a script passes to any, all and none
BoolLists == UNION {[1..n -> BOOLEAN] : n \in 0..MaxLen}

\* cfg!(unix)
cfg_unix(target) == target \in {"linux", "macos", "freebsd"}

\* os answering false to an identifier it does not know
os_check_false_for_unknown(name, target) ==
    CASE name = "linux" -> Ok(target = "linux", None)
      [] name \in {"macos", "darwin"} -> Ok(target = "macos", None)
      [] name = "windows" -> Ok(target = "windows", None)
      [] name = "unix" -> Ok(cfg_unix(target), None)
      [] OTHER -> Ok(FALSE, None)

\* os(name), as the outcome of the script `return os("<name>")`: the boolean, or
\* the RuntimeError that execute hands on
os_check(name, target) ==
    CASE name = "linux" -> Ok(target = "linux", None)
      [] name \in {"macos", "darwin"} -> Ok(target = "macos", None)
      [] name = "windows" -> Ok(target = "windows", None)
      [] name = "unix" -> Ok(cfg_unix(target), None)
      [] OTHER -> Err("Unknown OS")

RECURSIVE iter_any(_)
\* checks.iter().any(|&x| x)
iter_any(checks) == IF checks = <<>> THEN FALSE ELSE Head(checks) \/ iter_any(Tail(checks))

RECURSIVE iter_all(_)
\* checks.iter().all(|&x| x)
iter_all(checks) == IF checks = <<>> THEN TRUE ELSE Head(checks) /\ iter_all(Tail(checks))

any_check(checks) == iter_any(checks)

all_check(checks) == iter_all(checks)

\* none as the negation of all
none_check_not_all(checks) == ~iter_all(checks)

none_check(checks) == ~iter_any(checks)

\* A primitive is called on the table checks and returns ret
CallOn(op, checks, ret) ==
    /\ last.op = "none"
    /\ last' = [NoCommand EXCEPT !.op = op, !.args = checks, !.ret = ret]
    /\ UNCHANGED <<fs, cacheFile, writable, now, ops, stack, evalResult, target_os, procs,
                 overflow_checks>>

CallOs(name) == Call("os_check", <<name>>, Some(os_check(name, target_os)))

CallAny(checks) == CallOn("any_check", checks, Some(any_check(checks)))

CallAll(checks) == CallOn("all_check", checks, Some(all_check(checks)))

CallNone(checks) == CallOn("none_check", checks, Some(none_check(checks)))

InitPrimitives ==
    /\ overflow_checks = FALSE
    /\ procs = <<>>
    /\ target_os \in TargetOses
    /\ fs = EmptyMap
    /\ cacheFile = Absent
    /\ writable = TRUE
    /\ now = 0
    /\ ops = 0
    /\ last = NoCommand
    /\ stack = <<>>
    /\ evalResult = NoResult

NextPrimitives ==
    \/ \E name \in OsNames : CallOs(name)
    \/ \E checks \in BoolLists : CallAny(checks) \/ CallAll(checks) \/ CallNone(checks)

SpecPrimitives == InitPrimitives /\ [][NextPrimitives]_vars

\* C23: os returns a boolean for the identifiers linux, macos, darwin, windows
\* and unix, the same one for macos and darwin; for every other identifier it
\* raises an error, which is the outcome of the evaluation.
C23_OsKnowsFiveIdentifiers ==
    last.op = "os_check" =>
        LET name == last.name[1]
            outcome == last.ret[1]
        IN  /\ name \in {"linux", "macos", "darwin", "windows", "unix"} =>
                  outcome.kind = "ok" /\ outcome.value \in BOOLEAN
            /\ name \in {"macos", "darwin"} =>
                  /\ outcome = os_check("macos", target_os)
                  /\ outcome = os_check("darwin", target_os)
            /\ name \notin {"linux", "macos", "darwin", "windows", "unix"} =>
                  outcome.kind = "err"

C23_Witness ==
    /\ last.op = "os_check"
    /\ target_os = "freebsd"
    /\ last.name = <<"freebsd">>
    /\ last.ret[1].kind = "err"

\* C24: for every list of booleans, the empty one included, any is true iff
\* some element is true, all is true iff every element is true, none is true
\* iff no element is true, and none is the negation of any.
C24_AnyAllNoneReduceTheList ==
    last.op \in {"any_check", "all_check", "none_check"} =>
        LET L == last.args
            r == last.ret[1]
        IN  /\ last.op = "any_check" => (r <=> \E i \in 1..Len(L) : L[i])
            /\ last.op = "all_check" => (r <=> \A i \in 1..Len(L) : L[i])
            /\ last.op = "none_check" => (r <=> ~\E i \in 1..Len(L) : L[i])
            /\ none_check(L) = ~any_check(L)

C24_Witness ==
    /\ last.op = "none_check"
    /\ last.args = <<>>
    /\ last.ret = <<TRUE>>

-----------------------------------------------------------------------------
(* The final value of a script: lua_executor.rs, execute                     *)

\* What a.lua can return
FinalScripts ==
    {ReturnBool(b) : b \in BOOLEAN}
    \cup {ReturnTable(b, 1) : b \in BOOLEAN}
    \cup {ReturnValue(shape) : shape \in {"nil", "number", "string", "function"}}
    \cup {ReturnTableWith(value, ttl) : value \in {"true", "nil", "string"},
                                        ttl \in {None, Some(1)}}
    \cup {SyntaxError}

InitFinal ==
    /\ overflow_checks = FALSE
    /\ procs = <<>>
    /\ target_os = "linux"
    /\ \E a \in FinalScripts : fs = [p \in {A} |-> File(0, a)]
    /\ cacheFile = Absent
    /\ writable = TRUE
    /\ now = 0
    /\ ops = 0
    /\ last = NoCommand
    /\ stack = <<>>
    /\ evalResult = NoResult

NextFinal ==
    \/ \E no_cache \in BOOLEAN : Evaluate(A, no_cache)
    \/ Get(A)
    \/ \E force \in BOOLEAN : Sync(force)

SpecFinal == InitFinal /\ [][NextFinal]_vars

\* C25: an evaluation succeeds only if the final value of the script is a
\* boolean or a table that holds a boolean in its value field; nil, a number,
\* a string, a function and a table without a boolean value make it fail.
C25_OnlyBooleanOrTableWithBooleanValue ==
    last.op = "evaluate" =>
        LET script == last.files[last.name].script
            well_formed ==
                \/ script.shape = "bool"
                \/ script.shape = "table" /\ script.value \in {"true", "false"}
        IN  last.status = "ok" => well_formed

-----------------------------------------------------------------------------
(* Repeated evaluation, point writes and provenance, on the commands of Spec *)

\* The evaluation of the last command's gatekeeper from the files the command
\* found, with no cache file, at time 0
Pristine == evaluate_command(Absent, last.files, TRUE, 0, last.name, FALSE)

PointWrite == last.op = "set" \/ (last.op = "evaluate" /\ ~last.flag)

\* The point write reached the cache file
Written ==
    /\ PointWrite
    /\ last.status = "ok"
    /\ writable
    /\ last.old.kind # "malformed"

\* C27: a point write for a name leaves the entry of every other name as it
\* was, adds no other name, and, once written, the cache holds for the name
\* the entry of this write; so after a sequence of point writes each name
\* holds the entry of the last write to it.
C27_PointWriteTouchesOneName ==
    PointWrite =>
        /\ DOMAIN NewCache \ {last.name} = DOMAIN OldCache \ {last.name}
        /\ \A m \in DOMAIN OldCache \ {last.name} : NewCache[m] = OldCache[m]
        /\ Written =>
              /\ last.name \in DOMAIN NewCache
              /\ NewCache[last.name].ts = T
              /\ NewCache[last.name].value =
                    (IF last.op = "set" THEN last.value ELSE last.printed[1])

C27_Witness ==
    /\ Written
    /\ \E m \in DOMAIN OldCache \ {last.name} : NewCache[m] = OldCache[m]
    /\ last.name \in DOMAIN OldCache
    /\ NewCache[last.name] # OldCache[last.name]

\* C28: the provenance of an entry names the operation that last wrote it:
\* set after set, evaluate after a cached evaluate, sync after a re-evaluation
\* by sync; an entry sync copies forward, and every entry get and rm leave in
\* the cache, keeps the provenance it had.
C28_ProvenanceNamesLastWriter ==
    /\ Written => NewCache[last.name].update_type = last.op
    /\ Synced =>
          \A g \in DOMAIN NewCache :
              IF g \in last.evals
              THEN NewCache[g].update_type = "sync" /\ NewCache[g].ts = T
              ELSE g \in DOMAIN OldCache /\ NewCache[g] = OldCache[g]
    /\ last.op \in {"get", "get_all", "rm"} =>
          \A g \in DOMAIN NewCache : g \in DOMAIN OldCache /\ NewCache[g] = OldCache[g]

C28_Witness ==
    /\ Synced
    /\ \E g \in DOMAIN NewCache :
           /\ g \in last.evals
           /\ g \in DOMAIN OldCache
           /\ OldCache[g].update_type = "set"
           /\ NewCache[g].update_type = "sync"

-----------------------------------------------------------------------------
(* Two commands on one cache file at the same time.  A command reads the     *)
(* clock and the document (cache.rs 71-87, 302-318), works on its copy, and  *)
(* writes the document back with fs::write (105, 411); nothing locks the     *)
(* file in between.                                                          *)

Procs == {1, 2}

RaceCommands ==
    {[op |-> "set", name |-> n, value |-> v, flag |-> FALSE] : n \in CmdNames, v \in BOOLEAN}
    \cup {[op |-> "evaluate", name |-> A, value |-> FALSE, flag |-> FALSE]}
    \cup {[op |-> "sync", name |-> <<>>, value |-> FALSE, flag |-> f] : f \in BOOLEAN}

\* The documents the commands find
RaceCacheFiles == {Absent, Cache([n \in {X} |-> Entry(FALSE, 0, "evaluate", None)], 0)}

\* The command on the document `file` it read at time t
RunOn(cmd, file, files, can_write, t) ==
    CASE cmd.op = "set" -> set_command(file, files, can_write, t, cmd.name, cmd.value, None)
      [] cmd.op = "evaluate" -> evaluate_command(file, files, can_write, t, cmd.name, cmd.flag)
      [] cmd.op = "sync" -> sync_command(file, files, can_write, t, cmd.flag, <<>>)

\* fs::write of a document built from the document on disk at the time of the write
document_written_merging(cmd, read, current, files, can_write, t) ==
    RunOn(cmd, current, files, can_write, t).file

\* fs::write: the document built from the copy the command read
document_written(cmd, read, current, files, can_write, t) ==
    RunOn(cmd, read, files, can_write, t).file

\* The command reads the clock and the cache file
RaceRead(p) ==
    /\ procs[p].pc = "read"
    /\ procs' = [procs EXCEPT ![p].pc = "write", ![p].read = cacheFile, ![p].t = now]
    /\ UNCHANGED <<fs, cacheFile, writable, now, ops, last, stack, evalResult, target_os,
                 overflow_checks>>

\* The command writes the cache file and ends
RaceWrite(p) ==
    /\ procs[p].pc = "write"
    /\ LET cmd == procs[p].cmd
           read == procs[p].read
           out == RunOn(cmd, read, fs, writable, procs[p].t)
           writes == out.status = "ok" /\ writable /\ read.kind # "malformed"
       IN  /\ cacheFile' = IF writes
                           THEN document_written(cmd, read, cacheFile, fs, writable, procs[p].t)
                           ELSE cacheFile
           /\ last' = [Command(cmd.op, cmd.name, cmd.value, None, cmd.flag, out)
                          EXCEPT !.t = procs[p].t, !.old = read, !.args = <<p>>]
    /\ procs' = [procs EXCEPT ![p].pc = "done"]
    /\ ops' = ops + 1
    /\ UNCHANGED <<fs, writable, now, stack, evalResult, target_os,
                 overflow_checks>>

InitRace ==
    /\ overflow_checks = FALSE
    /\ target_os = "linux"
    /\ procs \in [Procs -> {[pc |-> "read", cmd |-> c, read |-> Absent, t |-> 0] :
                                c \in RaceCommands}]
    /\ fs = [p \in {A} |-> File(0, ReturnBool(TRUE))]
    /\ cacheFile \in RaceCacheFiles
    /\ writable = TRUE
    /\ now = 0
    /\ ops = 0
    /\ last = NoCommand
    /\ stack = <<>>
    /\ evalResult = NoResult

NextRace ==
    \/ \E p \in Procs : RaceRead(p)
    \/ \E p \in Procs : RaceWrite(p)
    \/ Tick

SpecRace == InitRace /\ [][NextRace]_vars

\* C29: with the read and write steps of two commands interleaved in any
\* order, the document on disk after a write is the one the command that
\* wrote last built from the copy it had read, whatever the other command
\* wrote in between.
C29_LastWriterWins ==
    last.op \in {"set", "evaluate", "sync"} =>
        cacheFile = RunOn([op |-> last.op, name |-> last.name, value |-> last.value,
                           flag |-> last.flag],
                          last.old, last.files, writable, last.t).file

\* Both commands are done, and the name the earlier writer set is not in the
\* document the later writer, setting another name, left
C29_Witness ==
    \E e \in Procs, w \in Procs :
        /\ e # w
        /\ procs[e].pc = "done" /\ procs[w].pc = "done"
        /\ last.args = <<w>>
        /\ procs[e].cmd.op = "set" /\ procs[w].cmd.op = "set"
        /\ procs[e].cmd.name # procs[w].cmd.name
        /\ procs[w].cmd.name \in DOMAIN cacheFile.cache
        /\ procs[e].cmd.name \notin DOMAIN cacheFile.cache

-----------------------------------------------------------------------------
(* The counts sync reports *)

\* C30: the counts of a sync classify its inputs: re-evaluated is the number
\* of distinct gatekeepers evaluated and written, skipped the number of
\* gatekeeper entries copied forward, preserved the number of entries of no
\* gatekeeper kept, removed the number of unexpired entries of no gatekeeper
\* dropped; re-evaluated + skipped is at most the number of gatekeeper entries
\* of the new cache.
C30_CountsClassifyInputs ==
    Synced =>
        LET counts == last.counts
            written == Gatekeepers \cap DOMAIN NewCache
        IN  /\ counts.updated = Cardinality(written \cap last.evals)
            /\ counts.skipped = Cardinality(written \ last.evals)
            /\ counts.preserved = Cardinality(DOMAIN NewCache \ Gatekeepers)
            /\ counts.removed =
                  Cardinality({n \in DOMAIN OldCache \ Gatekeepers :
                                  ~ExpiredAt(OldCache[n], T) /\ n \notin DOMAIN NewCache})
            /\ counts.updated + counts.skipped <= Cardinality(written)

-----------------------------------------------------------------------------
(* require, on the trees of SpecTree *)

\* C31: require(m) replaces every '.' of m by '/', tries that name and, only
\* when it holds no '/', the name followed by '/init'; the first candidate
\* whose resolved file exists is evaluated, and when there is none require
\* fails as not found and the in-progress set stays as it was.
C31_RequireTriesNameThenInit ==
    last.op = "require" =>
        LET m == last.name
            gk == [i \in 1..Len(m) |-> IF m[i] = "." THEN "/" ELSE m[i]]
            slash == \E i \in 1..Len(gk) : gk[i] = "/"
            candidates == IF slash THEN <<gk>> ELSE <<gk, gk \o <<"/", "init">> >>
            exists(c) == get_gatekeeper_path(last.files, c) \in DOMAIN last.files
            found == {i \in 1..Len(candidates) : exists(candidates[i])}
            machine == last.ret[1]
        IN  IF found = {}
            THEN /\ Len(machine.stack) = 1
                 /\ machine.stack[1].failed = "notfound"
                 /\ machine.stack[1].visited = {}
            ELSE LET c == candidates[CHOOSE i \in found : \A j \in found : i <= j]
                 IN  /\ Len(machine.stack) = 2
                     /\ machine.stack[1].visited = {c}
                     /\ machine.stack[2].name = c
                     /\ machine.stack[2].script
                            = last.files[get_gatekeeper_path(last.files, c)].script

C31_Witness ==
    /\ last.op = "require"
    /\ last.name = <<"d", ".", "e">>
    /\ DE \notin DOMAIN last.files
    /\ DE_init \in DOMAIN last.files
    /\ last.ret[1].stack[1].failed = "notfound"
    /\ last.ret[1].stack[1].visited = {}

\* C32: every name find_all_gatekeepers returns resolves, through
\* get_gatekeeper_path, to a file that exists, for every tree, a directory
\* with an init.lua below another directory included: each gatekeeper listed
\* can be loaded by its name.
C32_ListedNamesResolve ==
    last.op = "find_all_gatekeepers" =>
        \A name \in DOMAIN last.ret[1] :
            /\ get_gatekeeper_path(last.files, name) \in DOMAIN last.files
            /\ load_and_evaluate_gatekeeper(last.files, name).kind = "ok"

-----------------------------------------------------------------------------
(* The cache a sync writes, on the caches and files of SpecReconcile *)

C34_SyncWritesFreshOrOldEntries ==
    Reconciled =>
        /\ DOMAIN NewCache \subseteq Gatekeepers \cup DOMAIN OldCache
        /\ \A n \in DOMAIN NewCache :
               \/ /\ n \in Gatekeepers
                  /\ n \in last.evals
                  /\ NewCache[n].update_type = "sync"
                  /\ NewCache[n].ts = T
               \/ /\ n \in DOMAIN OldCache
                  /\ NewCache[n] = OldCache[n]

C34_Witness ==
    /\ Reconciled
    /\ \E n \in DOMAIN NewCache \ DOMAIN OldCache : NewCache[n].update_type = "sync"
    /\ \E m \in DOMAIN NewCache \cap DOMAIN OldCache :
           NewCache[m] = OldCache[m] /\ OldCache[m].ts < T

-----------------------------------------------------------------------------
(* A sync that fails, on the commands of Spec *)

\* C35: sync writes the cache document once, after the last gatekeeper: a
\* sync that ends in an error leaves the document as it was before the sync.
C35_FailedSyncLeavesCache ==
    last.op = "sync" /\ last.status # "ok" => cacheFile = last.old

C35_Witness ==
    /\ last.op = "sync"
    /\ last.status = "err"
    /\ last.evals # {}
    /\ DOMAIN OldCache # {}
    /\ cacheFile = last.old

-----------------------------------------------------------------------------
(* rm, on the commands of Spec *)

\* rm was asked to delete the gatekeeper file, the file was there, and it is
\* still there: fs::remove_file failed
RemovalFailed ==
    /\ last.op = "rm"
    /\ last.flag
    /\ get_gatekeeper_path(last.files, last.name) \in DOMAIN last.files
    /\ get_gatekeeper_path(last.files, last.name) \in DOMAIN fs

\* C36 as claimed: rm(name) removes the entry for name and leaves every other
\* entry as it was; when the cache has no entry for name, rm does not rewrite
\* the document and returns success.
C36_RmWithoutEntrySucceeds ==
    last.op = "rm" /\ last.old.kind # "malformed" =>
        /\ \A m \in DOMAIN OldCache \ {last.name} :
               m \in DOMAIN NewCache /\ NewCache[m] = OldCache[m]
        /\ DOMAIN NewCache \subseteq DOMAIN OldCache
        /\ last.status = "ok" => last.name \notin DOMAIN NewCache
        /\ last.name \notin DOMAIN OldCache =>
               cacheFile = last.old /\ last.status = "ok"

\* C36: rm(name) removes the entry for name and leaves every other entry as it
\* was; when the cache has no entry for name, rm does not rewrite the document,
\* and it returns success unless the deletion of the gatekeeper file it was
\* asked for fails.
C36_RmRemovesOneEntry ==
    last.op = "rm" /\ last.old.kind # "malformed" =>
        /\ \A m \in DOMAIN OldCache \ {last.name} :
               m \in DOMAIN NewCache /\ NewCache[m] = OldCache[m]
        /\ DOMAIN NewCache \subseteq DOMAIN OldCache
        /\ last.status = "ok" => last.name \notin DOMAIN NewCache
        /\ last.name \notin DOMAIN OldCache =>
               /\ cacheFile = last.old
               /\ last.status = "ok" <=> ~RemovalFailed

C36_Witness ==
    /\ last.op = "rm"
    /\ last.status = "ok"
    /\ last.old.kind = "ok"
    /\ last.name \notin DOMAIN OldCache
    /\ DOMAIN OldCache # {}
    /\ T > last.old.ts
    /\ cacheFile = last.old

\* C37: when rm is asked to delete the gatekeeper file and the deletion
\* fails, rm returns an error and the cache document is as it was, the entry
\* for the name included; the document is rewritten only after the file step
\* succeeded or was not needed.
C37_FailedRemovalLeavesCache ==
    /\ RemovalFailed => last.status = "err" /\ cacheFile = last.old
    /\ last.op = "rm" /\ cacheFile # last.old => ~RemovalFailed

C37_Witness ==
    /\ RemovalFailed
    /\ last.status = "err"
    /\ last.name \in DOMAIN OldCache
    /\ last.name \in DOMAIN NewCache
    /\ cacheFile = last.old

-----------------------------------------------------------------------------
(* The commands that only read, and the time stamp of the document, on the   *)
(* commands of Spec                                                          *)

\* C38: get, for one name or for all, and evaluate with --no-cache leave the
\* cache document as it was, entries and ts, whether they succeed or fail.
C38_ReadOnlyCommandsLeaveCache ==
    last.op \in {"get", "get_all"} \/ (last.op = "evaluate" /\ last.flag) =>
        cacheFile = last.old

C38_Witness ==
    /\ last.op = "evaluate"
    /\ last.flag
    /\ last.status = "ok"
    /\ last.old.kind = "ok"
    /\ last.name \notin DOMAIN NewCache
    /\ T > last.old.ts
    /\ cacheFile = last.old

\* C39: after every command that writes the cache document (set, a cached
\* evaluate, sync, rm of a name that had an entry) the ts of the document is
\* the time of that write; so, the clock never going back and the first
\* command finding no cache, the ts of the document is at least the ts of
\* every entry in it.
C39_DocumentTsIsLastWriteTime ==
    /\ Written \/ Synced \/ (last.op = "rm" /\ last.status = "ok"
                                /\ last.name \in DOMAIN OldCache) =>
           cacheFile.kind = "ok" /\ cacheFile.ts = T
    /\ cacheFile.kind = "ok" =>
           \A n \in DOMAIN NewCache : NewCache[n].ts <= cacheFile.ts

C39_Witness ==
    /\ Written
    /\ cacheFile.ts = T
    /\ T > last.old.ts
    /\ \E n \in DOMAIN NewCache : NewCache[n].ts < cacheFile.ts

-----------------------------------------------------------------------------
(* TTLs near u64::MAX: cache.rs 90 and 379, current_timestamp + ttl          *)

InitOverflow ==
    /\ overflow_checks \in BOOLEAN
    /\ procs = <<>>
    /\ target_os = "linux"
    /\ \E a \in {ReturnBoolTtlComment(TRUE, MaxU64), ReturnTable(TRUE, MaxU64 - 1),
                 ReturnBool(TRUE)} :
           fs = [p \in {A} |-> File(0, a)]
    /\ cacheFile = Absent
    /\ writable = TRUE
    /\ now = 0
    /\ ops = 0
    /\ last = NoCommand
    /\ stack = <<>>
    /\ evalResult = NoResult

NextOverflow ==
    \/ \E value \in BOOLEAN, ttl \in {Some(1), Some(MaxU64 - 1), Some(MaxU64)} :
           Set(A, value, ttl)
    \/ Evaluate(A, FALSE)
    \/ \E force \in BOOLEAN : Sync(force)
    \/ Tick

SpecOverflow == InitOverflow /\ [][NextOverflow]_vars

\* C40: for every TTL a caller can pass, any unsigned 64-bit number of
\* seconds, the entry written has expires_at >= ts: ts + ttl never wraps
\* around to a time before the write.
C40_ExpiryNotBeforeWrite ==
    cacheFile.kind = "ok" =>
        \A n \in DOMAIN NewCache :
            NewCache[n].expires_at # None => NewCache[n].expires_at[1] >= NewCache[n].ts

====
